---- MODULE Spec2Model ----
(***************************************************************************)
(* Model of python_utils/wdb0.py: the functions that read hourly point     *)
(* observations from the "web_data" database on wdb0, pivot the rows into  *)
(* station-by-time masked arrays and keep results of old windows in .pkl   *)
(* files.                                                                  *)
(*                                                                         *)
(* Time is counted in ticks; TicksPerHour ticks make one hour, so that     *)
(* datetimes with a minute part exist.  Numbers are fixed point with three *)
(* decimals (0.254 is 254).                                                *)
(***************************************************************************)
EXTENDS Integers, Sequences, FiniteSets, TLC

\* ------------------------------------------------------------------ bounds
TicksPerHour == 2
MaxMinute == 1
MaxPrevHours == 2
MaxDuration == 1
MaxCalls == 2
MaxRows == 3
MaxSlotHours == 2
MaxStations == 2

\* --------------------------------------------------------------- constants
HoursPerDay == 24
CacheLagDays == 60
DepthFactor == 100
SweFactor == 1000
SecondsPerHour == 3600
DefaultNoData == 0 - 99999000

Hour == TicksPerHour
Day == HoursPerDay * TicksPerHour

\* Python's None, for the optional arguments (a tuple, a directory name).
None == << >>

\* ---------------------------------------------------------------- datetime
\* datetime.timedelta normalises to days (floor) and 0 <= seconds < one day.
timedelta_days(d) == d \div Day
timedelta_seconds(d) == d % Day

\* Variant: the hour of end_datetime is not counted.
num_hours_of_end_excluded(begin_datetime, end_datetime) ==
    LET time_range == end_datetime - begin_datetime
    IN  timedelta_days(time_range) * HoursPerDay
          + (timedelta_seconds(time_range) \div Hour)

\* time_range.days * 24 + time_range.seconds // 3600 + 1
num_hours_of(begin_datetime, end_datetime) ==
    LET time_range == end_datetime - begin_datetime
    IN  timedelta_days(time_range) * HoursPerDay
          + (timedelta_seconds(time_range) \div Hour) + 1

\* Variant: the days of the difference are left out.
time_ind_of_seconds_only(date, begin_datetime) ==
    LET time_diff == date - begin_datetime
    IN  timedelta_seconds(time_diff) \div Hour

\* Variant: a started hour counts as a whole one.
time_ind_of_rounded_up(date, begin_datetime) ==
    LET time_diff == date - begin_datetime
    IN  timedelta_days(time_diff) * HoursPerDay
          + ((timedelta_seconds(time_diff) + Hour - 1) \div Hour)

\* time_diff.days * 24 + time_diff.seconds // 3600
time_ind_of(date, begin_datetime) ==
    LET time_diff == date - begin_datetime
    IN  timedelta_days(time_diff) * HoursPerDay
          + (timedelta_seconds(time_diff) \div Hour)

\* [begin_datetime + dt.timedelta(hours=i) for i in range(num_hours)]
obs_datetime_of(begin_datetime, num_hours) ==
    [i \in 1..(IF num_hours > 0 THEN num_hours ELSE 0) |->
        begin_datetime + (i - 1) * Hour]

\* strftime('%Y%m%d%H'): the minute part is dropped.
strftime_YmdH(t) == t \div Hour

\* strftime('%Y-%m-%d %H:%M:%S'): the whole datetime, to the second.
strftime_YmdHMS(t) == [hour |-> t \div Hour, minsec |-> t % Hour]

\* PostgreSQL reads the literal back as a timestamp.
sql_timestamp(s) == s.hour * Hour + s.minsec

\* ------------------------------------------------------------------- store
\* The tables of "web_data" the queries read.  point.allstation: one row per
\* station; coordinates[0] is the longitude, coordinates[1] the latitude.
point_allstation ==
    { [obj_identifier |-> 1, station_id |-> <<"A", " ">>, name |-> <<" ", "a">>,
       coordinates |-> <<1000, 1000>>, elevation |-> 100, recorded_elevation |-> 101],
      [obj_identifier |-> 2, station_id |-> <<"B">>, name |-> <<"b">>,
       coordinates |-> <<5000, 1000>>, elevation |-> 200, recorded_elevation |-> 202],
      [obj_identifier |-> 3, station_id |-> <<" ", "C">>, name |-> <<"c", " ">>,
       coordinates |-> <<0, 0>>, elevation |-> 300, recorded_elevation |-> 303] }

\* An observation row; isnull is SQL's NULL in the value column; duration
\* (seconds) is used by the snowfall and precipitation tables only.
ObsRow(o, d, v) ==
    [obj_identifier |-> o, date |-> d, value |-> v, isnull |-> FALSE, duration |-> 0]
NullRow(o, d) ==
    [obj_identifier |-> o, date |-> d, value |-> 0, isnull |-> TRUE, duration |-> 0]
DurRow(o, d, h, v) ==
    [obj_identifier |-> o, date |-> d, value |-> v, isnull |-> FALSE,
     duration |-> h * SecondsPerHour]

point_obs_snow_depth ==
    { ObsRow(1, 0, 254), ObsRow(1, 1, 300), ObsRow(1, Hour, 0),
      ObsRow(1, Hour + 1, 120), ObsRow(1, 2 * Hour, 500),
      ObsRow(2, Hour, 150), NullRow(2, Hour + 1), ObsRow(2, 2 * Hour + 1, 70),
      ObsRow(3, 0, 10), ObsRow(3, 2 * Hour, 20), ObsRow(9, Hour, 50) }

point_obs_swe ==
    { ObsRow(1, 0, 30), ObsRow(1, Hour + 1, 45), ObsRow(2, Hour, 12),
      NullRow(3, 1) }

point_obs_airtemp ==
    { ObsRow(1, 0, 0 - 5000), ObsRow(1, Hour, 1500), ObsRow(1, Hour + 1, 0),
      ObsRow(2, 1, 2000), ObsRow(2, Hour + 1, 2500),
      ObsRow(3, Hour, DefaultNoData) }

point_obs_snowfall_raw ==
    { DurRow(1, 2 * Hour, 1, 25), DurRow(1, 2 * Hour, 2, 40),
      DurRow(2, 2 * Hour, 1, 99), DurRow(2, 2 * Hour + 1, 1, 10),
      [DurRow(3, 2 * Hour, 1, 0) EXCEPT !.isnull = TRUE] }

point_obs_precip_raw ==
    { DurRow(1, 2 * Hour, 1, 2), DurRow(3, 2 * Hour, 1, 5),
      DurRow(2, 2 * Hour + 1, 1, 1), DurRow(3, 2 * Hour, 2, 7) }

\* ------------------------------------------------------------------- query
\* SQL TRIM(): leading and trailing blanks removed.
RECURSIVE TrimLeft(_)
TrimLeft(s) ==
    IF s # << >> /\ Head(s) = " " THEN TrimLeft(Tail(s)) ELSE s
RECURSIVE TrimRight(_)
TrimRight(s) ==
    IF s # << >> /\ s[Len(s)] = " " THEN TrimRight(SubSeq(s, 1, Len(s) - 1)) ELSE s
TRIM(s) == TrimRight(TrimLeft(s))

\* AND coordinates[0] >= bb[0] AND coordinates[0] < bb[1]
\* AND coordinates[1] >= bb[2] AND coordinates[1] < bb[3], when a box is given.
InBoundingBox(st, bounding_box) ==
    \/ bounding_box = None
    \/ /\ st.coordinates[1] >= bounding_box[1]
       /\ st.coordinates[1] < bounding_box[2]
       /\ st.coordinates[2] >= bounding_box[3]
       /\ st.coordinates[2] < bounding_box[4]

\* Variant: the value column is selected as it is.
SelectRow_unscaled(st, o, factor) ==
    [obj_identifier |-> st.obj_identifier,
     station_id |-> TRIM(st.station_id),
     name |-> TRIM(st.name),
     lon |-> st.coordinates[1],
     lat |-> st.coordinates[2],
     elevation |-> st.elevation,
     recorded_elevation |-> st.recorded_elevation,
     date |-> o.date,
     value |-> o.value]

\* The SELECT list: the station's columns, the date and the scaled value.
SelectRow(st, o, factor) ==
    [obj_identifier |-> st.obj_identifier,
     station_id |-> TRIM(st.station_id),
     name |-> TRIM(st.name),
     lon |-> st.coordinates[1],
     lat |-> st.coordinates[2],
     elevation |-> st.elevation,
     recorded_elevation |-> st.recorded_elevation,
     date |-> o.date,
     value |-> o.value * factor]

\* ORDER BY obj_identifier, date
RowBefore(r, q) ==
    \/ r.obj_identifier < q.obj_identifier
    \/ r.obj_identifier = q.obj_identifier /\ r.date <= q.date
RECURSIVE OrderBy(_)
OrderBy(S) ==
    IF S = {} THEN << >>
    ELSE LET r == CHOOSE x \in S : \A y \in S : RowBefore(x, y)
         IN  <<r>> \o OrderBy(S \ {r})

\* Variant: the end of the window is excluded.
DateInRange_end_excluded(o, begin_datetime, end_datetime) ==
    /\ o.date >= sql_timestamp(strftime_YmdHMS(begin_datetime))
    /\ o.date < sql_timestamp(strftime_YmdHMS(end_datetime))

\* WHERE date >= 'begin' AND date <= 'end'
DateInRange(o, begin_datetime, end_datetime) ==
    /\ o.date >= sql_timestamp(strftime_YmdHMS(begin_datetime))
    /\ o.date <= sql_timestamp(strftime_YmdHMS(end_datetime))

\* SELECT ... FROM point.allstation, <table> WHERE date in the window AND the
\* identifiers join AND value IS NOT NULL [AND the box] ORDER BY ...
SelectRange(table, factor, begin_datetime, end_datetime, bounding_box) ==
    OrderBy({ SelectRow(st, o, factor) :
                <<st, o>> \in { p \in point_allstation \X table :
                    /\ DateInRange(p[2], begin_datetime, end_datetime)
                    /\ p[1].obj_identifier = p[2].obj_identifier
                    /\ ~ p[2].isnull
                    /\ InBoundingBox(p[1], bounding_box) } })

\* Variant: the stations with a snow depth reading at any time.
SnowDepthStationsAt_any_date(target_datetime) ==
    { o.obj_identifier : o \in { r \in point_obs_snow_depth : ~ r.isnull } }

\* (SELECT obj_identifier FROM point.obs_snow_depth WHERE date = 'target'
\*  AND value IS NOT NULL GROUP BY obj_identifier) AS t1
SnowDepthStationsAt(target_datetime) ==
    { o.obj_identifier : o \in { r \in point_obs_snow_depth :
        /\ r.date = sql_timestamp(strftime_YmdHMS(target_datetime))
        /\ ~ r.isnull } }

\* The window query restricted to the stations of t1.
SelectPrev(table, factor, target_datetime, begin_datetime, end_datetime, bounding_box) ==
    OrderBy({ SelectRow(st, o, factor) :
                <<st, o>> \in { p \in point_allstation \X table :
                    /\ DateInRange(p[2], begin_datetime, end_datetime)
                    /\ p[2].obj_identifier \in SnowDepthStationsAt(target_datetime)
                    /\ p[1].obj_identifier = p[2].obj_identifier
                    /\ ~ p[2].isnull
                    /\ InBoundingBox(p[1], bounding_box) } })

\* WHERE t2.date = 'target' AND t2.duration = duration_hours * 3600 AND ...
SelectInstant(table, factor, target_datetime, duration_hours, bounding_box) ==
    OrderBy({ SelectRow(st, o, factor) :
                <<st, o>> \in { p \in point_allstation \X table :
                    /\ p[2].date = sql_timestamp(strftime_YmdHMS(target_datetime))
                    /\ p[2].duration = duration_hours * SecondsPerHour
                    /\ p[2].obj_identifier \in SnowDepthStationsAt(target_datetime)
                    /\ p[1].obj_identifier = p[2].obj_identifier
                    /\ ~ p[2].isnull
                    /\ InBoundingBox(p[1], bounding_box) } })

\* ------------------------------------------------------------ masked array
\* A cell of a numpy masked array: the stored number, the mask flag, and
\* whether the number was ever assigned (np.ma.empty leaves memory as it is;
\* data of a cell with init = FALSE stands for any number).
Cell(v, m) == [data |-> v, mask |-> m, init |-> TRUE]

\* np.ma.empty([n]): n cells, nothing assigned, nothing masked.
ma_empty(n) == [j \in 1..n |-> [data |-> 0, mask |-> FALSE, init |-> FALSE]]

\* obs[i,:] = no_data_value
assign_all(cells, v) == [j \in DOMAIN cells |-> Cell(v, FALSE)]

\* Variant: the row is filled but not masked.
mask_all_skipped(cells) == cells

\* obs[i,:] = np.ma.masked : the mask is set, the stored number stays.
mask_all(cells) == [j \in DOMAIN cells |-> [cells[j] EXCEPT !.mask = TRUE]]

\* Variant: the new row is masked without being filled first.
no_data_row_unassigned(num_hours, no_data_value) ==
    mask_all(ma_empty(num_hours))

\* np.ma.empty([1, num_hours]); obs[i,:] = no_data_value; obs[i,:] = np.ma.masked
no_data_row(num_hours, no_data_value) ==
    mask_all(assign_all(ma_empty(num_hours), no_data_value))

\* numpy indexing along an axis of length n: i in -n .. n-1, negative i
\* counted from the end; anything else raises IndexError.
IndexOk(i, n) == (0 - n) <= i /\ i < n
IndexPos(i, n) == IF i < 0 THEN i + n + 1 ELSE i + 1

\* ------------------------------------------------------------------- pivot
\* Lines 118-130: the state of the scan before the first row.
ScanInit(first_obs) ==
    [station_ind |-> 0 - 1,
     current_station_obj_id |-> 0 - 1,
     station_obj_id |-> << >>,
     station_id |-> << >>,
     station_name |-> << >>,
     station_lon |-> << >>,
     station_lat |-> << >>,
     station_elevation |-> << >>,
     station_rec_elevation |-> << >>,
     obs |-> first_obs,
     fault |-> "none"]

\* Variant: every row opens a station entry.
OpenStation_every_row(st, row, new_obs) ==
    LET ind == st.station_ind + 1
        ids == Append(st.station_obj_id, row.obj_identifier)
    IN  [st EXCEPT
           !.station_ind = ind,
           !.obs = IF ind > 0 THEN st.obs \o new_obs ELSE st.obs,
           !.station_obj_id = ids,
           !.station_id = Append(st.station_id, row.station_id),
           !.station_name = Append(st.station_name, row.name),
           !.station_lon = Append(st.station_lon, row.lon),
           !.station_lat = Append(st.station_lat, row.lat),
           !.station_elevation = Append(st.station_elevation, row.elevation),
           !.station_rec_elevation =
               Append(st.station_rec_elevation, row.recorded_elevation),
           !.current_station_obj_id = ids[ind + 1]]

\* Lines 132-152: a row of another station opens a station entry; new_obs is
\* what np.ma.append adds for every station after the first.
OpenStation(st, row, new_obs) ==
    IF row.obj_identifier # st.current_station_obj_id
    THEN LET ind == st.station_ind + 1
             ids == Append(st.station_obj_id, row.obj_identifier)
         IN  [st EXCEPT
                !.station_ind = ind,
                !.obs = IF ind > 0 THEN st.obs \o new_obs ELSE st.obs,
                !.station_obj_id = ids,
                !.station_id = Append(st.station_id, row.station_id),
                !.station_name = Append(st.station_name, row.name),
                !.station_lon = Append(st.station_lon, row.lon),
                !.station_lat = Append(st.station_lat, row.lat),
                !.station_elevation = Append(st.station_elevation, row.elevation),
                !.station_rec_elevation =
                    Append(st.station_rec_elevation, row.recorded_elevation),
                !.current_station_obj_id = ids[ind + 1]]
    ELSE st

\* Lines 154-166: obs[station_ind, time_ind] = value.  on_error is "exit" in
\* the functions that wrap the store in try/except and call exit(1), and
\* "IndexError" in those that let the exception escape.
StoreRange(st, row, begin_datetime, on_error) ==
    LET time_ind == time_ind_of(row.date, begin_datetime)
        nrows == Len(st.obs)
        ncols == Len(st.obs[1])
    IN  IF IndexOk(st.station_ind, nrows) /\ IndexOk(time_ind, ncols)
        THEN [st EXCEPT !.obs[IndexPos(st.station_ind, nrows)]
                              [IndexPos(time_ind, ncols)] = Cell(row.value, FALSE)]
        ELSE [st EXCEPT !.fault = on_error]

\* Lines 1209-1215: obs[station_ind] = value, for the one-instant arrays.
StoreInstant(st, row, on_error) ==
    LET n == Len(st.obs)
    IN  IF IndexOk(st.station_ind, n)
        THEN [st EXCEPT !.obs[IndexPos(st.station_ind, n)] = Cell(row.value, FALSE)]
        ELSE [st EXCEPT !.fault = on_error]

\* for ind, row in df.iterrows(): ... ; the scan stops at the first fault.
RECURSIVE ScanRange(_, _, _, _, _, _, _)
ScanRange(st, df, k, begin_datetime, num_hours, no_data_value, on_error) ==
    IF k > Len(df) \/ st.fault # "none" THEN st
    ELSE ScanRange(
           StoreRange(
             OpenStation(st, df[k], <<no_data_row(num_hours, no_data_value)>>),
             df[k], begin_datetime, on_error),
           df, k + 1, begin_datetime, num_hours, no_data_value, on_error)

RECURSIVE ScanInstant(_, _, _, _, _)
ScanInstant(st, df, k, no_data_value, on_error) ==
    IF k > Len(df) \/ st.fault # "none" THEN st
    ELSE ScanInstant(
           StoreInstant(OpenStation(st, df[k], no_data_row(1, no_data_value)),
                        df[k], on_error),
           df, k + 1, no_data_value, on_error)

\* Lines 118-184: the rows of a window query as the dictionary returned.
PivotRange(df, begin_datetime, end_datetime, no_data_value, on_error, values_key) ==
    LET num_hours == num_hours_of(begin_datetime, end_datetime)
        st == ScanRange(ScanInit(<<no_data_row(num_hours, no_data_value)>>),
                        df, 1, begin_datetime, num_hours, no_data_value, on_error)
    IN  [fault |-> st.fault, value |->
        [num_stations |-> st.station_ind + 1,
         num_hours |-> num_hours,
         station_obj_id |-> st.station_obj_id,
         station_id |-> st.station_id,
         station_name |-> st.station_name,
         station_lon |-> st.station_lon,
         station_lat |-> st.station_lat,
         station_elevation |-> st.station_elevation,
         station_rec_elevation |-> st.station_rec_elevation,
         obs_datetime |-> obs_datetime_of(begin_datetime, num_hours),
         values_key |-> values_key,
         values |-> st.obs]]

\* Lines 1166-1230: the rows of an instant query as the dictionary returned.
PivotInstant(df, target_datetime, no_data_value, on_error, values_key) ==
    LET st == ScanInstant(ScanInit(no_data_row(1, no_data_value)),
                          df, 1, no_data_value, on_error)
    IN  [fault |-> st.fault, value |->
        [num_stations |-> st.station_ind + 1,
         station_obj_id |-> st.station_obj_id,
         station_id |-> st.station_id,
         station_name |-> st.station_name,
         station_lon |-> st.station_lon,
         station_lat |-> st.station_lat,
         station_elevation |-> st.station_elevation,
         station_rec_elevation |-> st.station_rec_elevation,
         obs_datetime |-> target_datetime,
         values_key |-> values_key,
         values |-> st.obs]]

\* ------------------------------------------------------------------ pickle
\* pkl.dump of a masked array: its shape and, in row-major order, the stored
\* numbers and the mask flags.
ravel2(values) ==
    LET r == Len(values)
        c == IF r = 0 THEN 0 ELSE Len(values[1])
    IN  [shape |-> <<r, c>>,
         cells |-> [k \in 1..(r * c) |->
                      values[((k - 1) \div c) + 1][((k - 1) % c) + 1]]]
ravel1(values) == [shape |-> <<Len(values)>>, cells |-> values]

\* Variant: the mask is not restored.
reshape_mask_lost(a) ==
    IF Len(a.shape) = 1 THEN [k \in DOMAIN a.cells |-> [a.cells[k] EXCEPT !.mask = FALSE]]
    ELSE [i \in 1..a.shape[1] |->
            [j \in 1..a.shape[2] |->
                [a.cells[(i - 1) * a.shape[2] + j] EXCEPT !.mask = FALSE]]]

\* pkl.load of the array: the cells put back in rows of shape[1] columns.
reshape(a) ==
    IF Len(a.shape) = 1 THEN a.cells
    ELSE [i \in 1..a.shape[1] |->
            [j \in 1..a.shape[2] |-> a.cells[(i - 1) * a.shape[2] + j]]]

\* pkl.dump(obj, file_obj): a dictionary with its array serialized, or the
\* data frame of get_swe_obs_df.
pkl_dump(obj) ==
    IF "values" \in DOMAIN obj
    THEN [pickled |-> "dict",
          body |-> [obj EXCEPT !.values =
                      IF "num_hours" \in DOMAIN obj THEN ravel2(obj.values)
                      ELSE ravel1(obj.values)]]
    ELSE [pickled |-> "DataFrame", body |-> obj]

\* pkl.load(file_obj)
pkl_load(blob) ==
    IF blob.pickled = "dict"
    THEN [blob.body EXCEPT !.values = reshape(blob.body.values)]
    ELSE blob.body

\* Variant: the bytes flushed so far already make the whole pickle.
FlushedPrefix_whole(blob, k) == blob

\* What is on disk between open(file_name, 'wb') and file_obj.close(): the
\* first k buffers of the pickle, without the STOP opcode that ends it.
FlushedPrefix(blob, k) == [pickled |-> "truncated", buffers |-> k]

\* pkl.load raises (EOFError, UnpicklingError) on a pickle that does not
\* reach its STOP opcode.
Loadable(blob) == blob.pickled # "truncated"

\* ------------------------------------------------------------------- files
\* A file name as the code composes it: prefix + a + mid + b + suffix, where
\* a and b are formatted numbers.
FileName(prefix, a, mid, b, suffix) ==
    [prefix |-> prefix, a |-> a, mid |-> mid, b |-> b, suffix |-> suffix]

\* A bare file name is relative to the current working directory.
RelativePath(file_name) == [dir |-> ".", name |-> file_name]

\* os.path.join(scratch_dir, file_name)
os_path_join(scratch_dir, file_name) == [dir |-> scratch_dir[1], name |-> file_name]

\* if scratch_dir is not None: file_name = os.path.join(scratch_dir, file_name)
PathFor(scratch_dir, file_name) ==
    IF scratch_dir # None THEN os_path_join(scratch_dir, file_name)
    ELSE RelativePath(file_name)

\* Variant: a lag of exactly 60 days counts as old.
OlderThanCacheLag_inclusive(now_utc, end_of_window) ==
    now_utc - end_of_window >= CacheLagDays * Day

\* lag > dt.timedelta(days=60)
OlderThanCacheLag(now_utc, end_of_window) ==
    now_utc - end_of_window > CacheLagDays * Day

\* ----------------------------------------------------- the fresh computations
\* What each function computes when it does not return from a .pkl file: the
\* query against the store and the pivot of its rows.
fresh_get_snow_depth_obs(begin_datetime, end_datetime, no_data_value, bounding_box) ==
    PivotRange(SelectRange(point_obs_snow_depth, DepthFactor,
                           begin_datetime, end_datetime, bounding_box),
               begin_datetime, end_datetime, no_data_value, "exit", "values_cm")

fresh_get_swe_obs(begin_datetime, end_datetime, no_data_value, bounding_box) ==
    PivotRange(SelectRange(point_obs_swe, SweFactor,
                           begin_datetime, end_datetime, bounding_box),
               begin_datetime, end_datetime, no_data_value, "IndexError", "values_mm")

\* The data frame itself: no pivot.
fresh_get_swe_obs_df(begin_datetime, end_datetime, no_data_value, bounding_box) ==
    [fault |-> "none",
     value |-> [columns |-> "obs_swe_mm",
                rows |-> SelectRange(point_obs_swe, SweFactor,
                                     begin_datetime, end_datetime, bounding_box)]]

fresh_get_prev_snow_depth_obs(target_datetime, num_hours_prev_sd, no_data_value, bounding_box) ==
    LET begin_datetime == target_datetime - num_hours_prev_sd * Hour
        end_datetime == target_datetime - Hour
    IN  PivotRange(SelectPrev(point_obs_snow_depth, DepthFactor, target_datetime,
                              begin_datetime, end_datetime, bounding_box),
                   begin_datetime, end_datetime, no_data_value, "exit", "values_cm")

fresh_get_air_temp_obs(begin_datetime, end_datetime, no_data_value, bounding_box) ==
    PivotRange(SelectRange(point_obs_airtemp, 1,
                           begin_datetime, end_datetime, bounding_box),
               begin_datetime, end_datetime, no_data_value, "IndexError",
               "values_deg_c")

fresh_get_prev_air_temp_obs(target_datetime, num_hours_prev_sd, no_data_value, bounding_box) ==
    LET begin_datetime == target_datetime - num_hours_prev_sd * Hour
        end_datetime == target_datetime - Hour
    IN  PivotRange(SelectPrev(point_obs_airtemp, 1, target_datetime,
                              begin_datetime, end_datetime, bounding_box),
                   begin_datetime, end_datetime, no_data_value, "exit",
                   "values_deg_c")

fresh_get_snwd_snowfall_obs(target_datetime, duration_hours, no_data_value, bounding_box) ==
    PivotInstant(SelectInstant(point_obs_snowfall_raw, DepthFactor,
                               target_datetime, duration_hours, bounding_box),
                 target_datetime, no_data_value, "exit", "values_cm")

fresh_get_snwd_prcp_obs(target_datetime, duration_hours, no_data_value, bounding_box) ==
    PivotInstant(SelectInstant(point_obs_precip_raw, SweFactor,
                               target_datetime, duration_hours, bounding_box),
                 target_datetime, no_data_value, "exit", "values_mm")

\* Variant: restricted to the stations with a snow depth reading at
\* target_datetime, as get_prev_air_temp_obs is.
fresh_get_prv_air_temp_obs_snow_depth_only(target_datetime, num_hours_prev, no_data_value, bounding_box) ==
    LET begin_datetime == target_datetime - num_hours_prev * Hour
        end_datetime == target_datetime - Hour
    IN  PivotRange(SelectPrev(point_obs_airtemp, 1, target_datetime,
                              begin_datetime, end_datetime, bounding_box),
                   begin_datetime, end_datetime, no_data_value, "IndexError",
                   "values_deg_c")


fresh_get_prv_air_temp_obs(target_datetime, num_hours_prev, no_data_value, bounding_box) ==
    LET begin_datetime == target_datetime - num_hours_prev * Hour
        end_datetime == target_datetime - Hour
    IN  PivotRange(SelectRange(point_obs_airtemp, 1,
                               begin_datetime, end_datetime, bounding_box),
                   begin_datetime, end_datetime, no_data_value, "IndexError",
                   "values_deg_c")

\* ------------------------------------------------------------------- state
VARIABLES
    files,    \* the .pkl files on disk: path -> pickled content
    now,      \* dt.datetime.utcnow()
    ncalls,   \* calls made so far
    last,     \* the most recent call: its arguments and what it did
    prev,     \* the call before it
    pin,      \* input of the pivot on its own: a row stream and a window
    pout,     \* result of the pivot on its own
    store,    \* the database server: "up", "refuses" (connections) or
              \* "rejects" (queries)
    writer    \* another process that is creating a .pkl file

vars == <<files, now, ncalls, last, prev, pin, pout, store, writer>>

\* os.path.isfile(file_name)
isfile(path) == path \in DOMAIN files

\* open(file_name, 'wb'); pkl.dump(obj, file_obj); file_obj.close()
WriteFile(path, obj) ==
    [q \in (DOMAIN files) \cup {path} |->
        IF q = path THEN pkl_dump(obj) ELSE files[q]]

\* open(file_name, 'rb'); pkl.load(file_obj); file_obj.close()
ReadFile(path) == pkl_load(files[path])

\* What is recorded of a call.
CallRecord(fn, kind, a1, a2, end_of_window, no_data_value, bounding_box, scratch_dir, path, source, outcome, value, wrote, connects, executes, closes) ==
    [fn |-> fn, kind |-> kind, a1 |-> a1, a2 |-> a2,
     end_of_window |-> end_of_window, no_data_value |-> no_data_value,
     bounding_box |-> bounding_box, scratch_dir |-> scratch_dir,
     path |-> path, now |-> now, source |-> source, outcome |-> outcome,
     value |-> value, wrote |-> wrote, connects |-> connects,
     executes |-> executes, closes |-> closes]

\* Variant: a refused connection is tried a second time.
Attempts_retried(condition) ==
    [connects |-> IF condition = "refuses" THEN 2 ELSE 1,
     executes |-> IF condition = "refuses" THEN 0 ELSE 1,
     raised |-> CASE condition = "refuses" -> "OperationalError"
                  [] condition = "rejects" -> "DatabaseError"
                  [] OTHER -> "none"]

\* conn = psycopg2.connect(conn_string); ...; cursor.execute(sql_cmd): one
\* connection and one query, outside any try; what either raises leaves the
\* function.
Attempts(condition) ==
    [connects |-> 1,
     executes |-> IF condition = "refuses" THEN 0 ELSE 1,
     raised |-> CASE condition = "refuses" -> "OperationalError"
                  [] condition = "rejects" -> "DatabaseError"
                  [] OTHER -> "none"]

\* Whether the connection is closed when the function returns.  conn is a
\* local variable: where the function calls conn.close() it is closed; where
\* it does not, the connection lives until the interpreter finalises the
\* object, which may be at the return, later or never.
ClosedAtReturn(closes) == IF closes THEN { TRUE } ELSE BOOLEAN

\* The skeleton the nine functions share.  reads: the function looks for the
\* file; writes: it may create it; fresh: its query and pivot; closes: it
\* calls conn.close().
Serve(fn, kind, a1, a2, end_of_window, no_data_value, bounding_box, scratch_dir, path, reads, writes, fresh, closes) ==
    /\ ncalls < MaxCalls
    /\ ncalls' = ncalls + 1
    /\ prev' = last
    /\ UNCHANGED <<now, pin, pout, store, writer>>
    /\ IF reads /\ isfile(path)
       THEN /\ files' = files
            /\ last' = IF Loadable(files[path])
                       THEN CallRecord(fn, kind, a1, a2, end_of_window,
                                       no_data_value, bounding_box, scratch_dir,
                                       path, "cache", "return", ReadFile(path),
                                       FALSE, 0, 0, FALSE)
                       ELSE CallRecord(fn, kind, a1, a2, end_of_window,
                                       no_data_value, bounding_box, scratch_dir,
                                       path, "cache", "UnpicklingError", None,
                                       FALSE, 0, 0, FALSE)
       ELSE IF Attempts(store).raised # "none"
       THEN /\ files' = files
            /\ last' = CallRecord(fn, kind, a1, a2, end_of_window, no_data_value,
                                  bounding_box, scratch_dir, path, "store",
                                  Attempts(store).raised, None, FALSE,
                                  Attempts(store).connects,
                                  Attempts(store).executes, FALSE)
       ELSE IF fresh.fault # "none"
       THEN /\ files' = files
            /\ last' = CallRecord(fn, kind, a1, a2, end_of_window, no_data_value,
                                  bounding_box, scratch_dir, path, "store",
                                  fresh.fault, [fault |-> fresh.fault], FALSE,
                                  Attempts(store).connects,
                                  Attempts(store).executes, FALSE)
       ELSE LET w == writes /\ OlderThanCacheLag(now, end_of_window)
            IN  /\ files' = IF w THEN WriteFile(path, fresh.value) ELSE files
                /\ \E closed \in ClosedAtReturn(closes) :
                     last' = CallRecord(fn, kind, a1, a2, end_of_window,
                                        no_data_value, bounding_box, scratch_dir,
                                        path, "store", "return", fresh.value, w,
                                        Attempts(store).connects,
                                        Attempts(store).executes, closed)

\* -------------------------------------------------------------- operations
\* get_snow_depth_obs, get_swe_obs and get_swe_obs_df look for the file and
\* create it whatever bounding_box and scratch_dir are.
get_snow_depth_obs(begin_datetime, end_datetime, no_data_value, bounding_box, scratch_dir) ==
    Serve("get_snow_depth_obs", "range", begin_datetime, end_datetime, end_datetime,
          no_data_value, bounding_box, scratch_dir,
          PathFor(scratch_dir,
                  FileName("wdb0_obs_snow_depth_", strftime_YmdH(begin_datetime),
                           "_to_", strftime_YmdH(end_datetime), ".pkl")),
          TRUE, TRUE,
          fresh_get_snow_depth_obs(begin_datetime, end_datetime, no_data_value,
                            bounding_box),
          FALSE)

get_swe_obs(begin_datetime, end_datetime, no_data_value, bounding_box, scratch_dir) ==
    Serve("get_swe_obs", "range", begin_datetime, end_datetime, end_datetime,
          no_data_value, bounding_box, scratch_dir,
          PathFor(scratch_dir,
                  FileName("wdb0_obs_snow_water_equivalent_", strftime_YmdH(begin_datetime),
                           "_to_", strftime_YmdH(end_datetime), ".pkl")),
          TRUE, TRUE,
          fresh_get_swe_obs(begin_datetime, end_datetime, no_data_value,
                     bounding_box),
          FALSE)

get_swe_obs_df(begin_datetime, end_datetime, no_data_value, bounding_box, scratch_dir) ==
    Serve("get_swe_obs_df", "range", begin_datetime, end_datetime, end_datetime,
          no_data_value, bounding_box, scratch_dir,
          PathFor(scratch_dir,
                  FileName("wdb0_obs_snow_water_equivalent_df_", strftime_YmdH(begin_datetime),
                           "_to_", strftime_YmdH(end_datetime), ".pkl")),
          TRUE, TRUE,
          fresh_get_swe_obs_df(begin_datetime, end_datetime, no_data_value,
                        bounding_box),
          TRUE)

\* The other functions: "Only use .pkl files if there is no bounding box";
\* the file is looked for only under a scratch_dir, and created when the
\* window is old enough and there is no bounding box.
get_prev_snow_depth_obs(target_datetime, num_hours_prev_sd, no_data_value, bounding_box, scratch_dir) ==
    Serve("get_prev_snow_depth_obs", "prev", target_datetime, num_hours_prev_sd,
          target_datetime - Hour, no_data_value, bounding_box, scratch_dir,
          PathFor(scratch_dir,
                  FileName("wdb0_obs_snow_depth_", num_hours_prev_sd, "_hours_prior_to_",
                           strftime_YmdH(target_datetime), "_snow_depth.pkl")),
          bounding_box = None /\ scratch_dir # None, bounding_box = None,
          fresh_get_prev_snow_depth_obs(target_datetime, num_hours_prev_sd, no_data_value,
                                 bounding_box),
          FALSE)

get_air_temp_obs(begin_datetime, end_datetime, no_data_value, bounding_box, scratch_dir) ==
    Serve("get_air_temp_obs", "range", begin_datetime, end_datetime, end_datetime,
          no_data_value, bounding_box, scratch_dir,
          PathFor(scratch_dir,
                  FileName("wdb0_obs_air_temp_", strftime_YmdH(begin_datetime),
                           "_to_", strftime_YmdH(end_datetime), ".pkl")),
          bounding_box = None /\ scratch_dir # None, bounding_box = None,
          fresh_get_air_temp_obs(begin_datetime, end_datetime, no_data_value,
                          bounding_box),
          FALSE)

get_prev_air_temp_obs(target_datetime, num_hours_prev_sd, no_data_value, bounding_box, scratch_dir) ==
    Serve("get_prev_air_temp_obs", "prev", target_datetime, num_hours_prev_sd,
          target_datetime - Hour, no_data_value, bounding_box, scratch_dir,
          PathFor(scratch_dir,
                  FileName("wdb0_obs_air_temp_", num_hours_prev_sd, "_hours_prior_to_",
                           strftime_YmdH(target_datetime), "_snow_depth.pkl")),
          bounding_box = None /\ scratch_dir # None, bounding_box = None,
          fresh_get_prev_air_temp_obs(target_datetime, num_hours_prev_sd, no_data_value,
                               bounding_box),
          FALSE)

get_snwd_snowfall_obs(target_datetime, duration_hours, no_data_value, bounding_box, scratch_dir) ==
    Serve("get_snwd_snowfall_obs", "instant", target_datetime, duration_hours, target_datetime,
          no_data_value, bounding_box, scratch_dir,
          PathFor(scratch_dir,
                  FileName("wdb0_obs_snowfall_", duration_hours, "_hours_ending_",
                           strftime_YmdH(target_datetime), "_snow_depth.pkl")),
          bounding_box = None /\ scratch_dir # None, bounding_box = None,
          fresh_get_snwd_snowfall_obs(target_datetime, duration_hours, no_data_value,
                               bounding_box),
          FALSE)

get_snwd_prcp_obs(target_datetime, duration_hours, no_data_value, bounding_box, scratch_dir) ==
    Serve("get_snwd_prcp_obs", "instant", target_datetime, duration_hours, target_datetime,
          no_data_value, bounding_box, scratch_dir,
          PathFor(scratch_dir,
                  FileName("wdb0_obs_precipitation_", duration_hours, "_hours_ending_",
                           strftime_YmdH(target_datetime), "_snow_depth.pkl")),
          bounding_box = None /\ scratch_dir # None, bounding_box = None,
          fresh_get_snwd_prcp_obs(target_datetime, duration_hours, no_data_value,
                           bounding_box),
          FALSE)

\* Its file is named after the window, as get_air_temp_obs names it.
get_prv_air_temp_obs(target_datetime, num_hours_prev, no_data_value, bounding_box, scratch_dir) ==
    Serve("get_prv_air_temp_obs", "prev", target_datetime, num_hours_prev,
          target_datetime - Hour, no_data_value, bounding_box, scratch_dir,
          PathFor(scratch_dir,
                  FileName("wdb0_obs_air_temp_",
                           strftime_YmdH(target_datetime - num_hours_prev * Hour),
                           "_to_", strftime_YmdH(target_datetime - Hour), ".pkl")),
          bounding_box = None /\ scratch_dir # None, bounding_box = None,
          fresh_get_prv_air_temp_obs(target_datetime, num_hours_prev,
                                     no_data_value, bounding_box),
          FALSE)

\* ------------------------------------------------------------------ inputs
Minutes == 0..MaxMinute
BeginTimes == Minutes
EndTimes == { Hour + m : m \in Minutes }
Targets == { 2 * Hour + m : m \in Minutes }
PrevHours == 1..MaxPrevHours
Durations == 1..MaxDuration
NoDataValues == { DefaultNoData }
BoundingBoxes == { None, <<0, 5000, 0, 5000>> }
ScratchDirs == { None, <<"scratch">> }
\* The wall clock: 10, 60 and 100 days after the latest end of a range window.
LagDays == { 10, CacheLagDays, 100 }
Nows == { d * Day + Hour + MaxMinute : d \in LagDays }

\* Time passes.
Tick == /\ \E t \in Nows : t > now /\ now' = t
        /\ UNCHANGED <<files, ncalls, last, prev, pin, pout, store, writer>>

Init ==
    /\ files = [q \in {} |-> 0]
    /\ now = 10 * Day + Hour + MaxMinute
    /\ ncalls = 0
    /\ last = [fn |-> "none"]
    /\ prev = [fn |-> "none"]
    /\ pin = [kind |-> "none"]
    /\ pout = [done |-> FALSE]
    /\ store = "up"
    /\ writer = [phase |-> "idle"]

Next ==
    \/ Tick
    \/ \E b \in BeginTimes, e \in EndTimes, x \in NoDataValues,
          bb \in BoundingBoxes, sd \in ScratchDirs :
            get_snow_depth_obs(b, e, x, bb, sd)
    \/ \E b \in BeginTimes, e \in EndTimes, x \in NoDataValues,
          bb \in BoundingBoxes, sd \in ScratchDirs :
            get_swe_obs(b, e, x, bb, sd)
    \/ \E b \in BeginTimes, e \in EndTimes, x \in NoDataValues,
          bb \in BoundingBoxes, sd \in ScratchDirs :
            get_swe_obs_df(b, e, x, bb, sd)
    \/ \E t \in Targets, n \in PrevHours, x \in NoDataValues,
          bb \in BoundingBoxes, sd \in ScratchDirs :
            get_prev_snow_depth_obs(t, n, x, bb, sd)
    \/ \E b \in BeginTimes, e \in EndTimes, x \in NoDataValues,
          bb \in BoundingBoxes, sd \in ScratchDirs :
            get_air_temp_obs(b, e, x, bb, sd)
    \/ \E t \in Targets, n \in PrevHours, x \in NoDataValues,
          bb \in BoundingBoxes, sd \in ScratchDirs :
            get_prev_air_temp_obs(t, n, x, bb, sd)
    \/ \E t \in Targets, h \in Durations, x \in NoDataValues,
          bb \in BoundingBoxes, sd \in ScratchDirs :
            get_snwd_snowfall_obs(t, h, x, bb, sd)
    \/ \E t \in Targets, h \in Durations, x \in NoDataValues,
          bb \in BoundingBoxes, sd \in ScratchDirs :
            get_snwd_prcp_obs(t, h, x, bb, sd)
    \/ \E t \in Targets, n \in PrevHours, x \in NoDataValues,
          bb \in BoundingBoxes, sd \in ScratchDirs :
            get_prv_air_temp_obs(t, n, x, bb, sd)

Spec == Init /\ [][Next]_vars

\* ---------------------------------------------- the functions and their world
\* The database server stops accepting connections, starts rejecting
\* queries, recovers.
store_refuses ==
    /\ store = "up"
    /\ store' = "refuses"
    /\ UNCHANGED <<files, now, ncalls, last, prev, pin, pout, writer>>

store_rejects ==
    /\ store = "up"
    /\ store' = "rejects"
    /\ UNCHANGED <<files, now, ncalls, last, prev, pin, pout, writer>>

store_recovers ==
    /\ store # "up"
    /\ store' = "up"
    /\ UNCHANGED <<files, now, ncalls, last, prev, pin, pout, writer>>

\* The file at path becomes blob.
Put(path, blob) ==
    [q \in (DOMAIN files) \cup {path} |-> IF q = path THEN blob ELSE files[q]]

\* Another process runs one of the functions, a statement at a time: the
\* calls it may be in.
WriterCalls ==
    { [fn |-> "get_snow_depth_obs",
       path |-> PathFor(sd, FileName("wdb0_obs_snow_depth_", strftime_YmdH(0),
                                     "_to_", strftime_YmdH(Hour), ".pkl")),
       end_of_window |-> Hour,
       reads |-> TRUE,
       writes |-> TRUE,
       fresh |-> fresh_get_snow_depth_obs(0, Hour, DefaultNoData, None)] :
        sd \in ScratchDirs }
    \cup
    { [fn |-> "get_snwd_snowfall_obs",
       path |-> PathFor(<<"scratch">>,
                        FileName("wdb0_obs_snowfall_", 1, "_hours_ending_",
                                 strftime_YmdH(2 * Hour), "_snow_depth.pkl")),
       end_of_window |-> 2 * Hour,
       reads |-> TRUE,
       writes |-> TRUE,
       fresh |-> fresh_get_snwd_snowfall_obs(2 * Hour, 1, DefaultNoData, None)] }

\* It found no file, queried the store, and its window is old enough.
writer_query ==
    /\ writer.phase = "idle"
    /\ store = "up"
    /\ \E c \in WriterCalls :
         /\ ~ (c.reads /\ isfile(c.path))
         /\ c.fresh.fault = "none"
         /\ c.writes /\ OlderThanCacheLag(now, c.end_of_window)
         /\ writer' = [phase |-> "queried", fn |-> c.fn, path |-> c.path,
                       value |-> c.fresh.value]
    /\ UNCHANGED <<files, now, ncalls, last, prev, pin, pout, store>>

\* file_obj = open(file_name, 'wb'): the file exists and is empty.
writer_open ==
    /\ writer.phase = "queried"
    /\ writer' = [writer EXCEPT !.phase = "open"]
    /\ files' = Put(writer.path, FlushedPrefix(pkl_dump(writer.value), 0))
    /\ UNCHANGED <<now, ncalls, last, prev, pin, pout, store>>

\* pkl.dump(obj, file_obj) under way: a buffer has reached the disk.
writer_dump ==
    /\ writer.phase = "open"
    /\ writer' = [writer EXCEPT !.phase = "dumping"]
    /\ files' = Put(writer.path, FlushedPrefix(pkl_dump(writer.value), 1))
    /\ UNCHANGED <<now, ncalls, last, prev, pin, pout, store>>

\* pkl.dump returned and file_obj.close() ran: the whole pickle is on disk.
writer_close ==
    /\ writer.phase \in { "open", "dumping" }
    /\ writer' = [writer EXCEPT !.phase = "closed"]
    /\ files' = Put(writer.path, pkl_dump(writer.value))
    /\ UNCHANGED <<now, ncalls, last, prev, pin, pout, store>>

\* The process dies between open and close; the file stays as it is.
writer_crash ==
    /\ writer.phase \in { "open", "dumping" }
    /\ writer' = [writer EXCEPT !.phase = "crashed"]
    /\ UNCHANGED <<files, now, ncalls, last, prev, pin, pout, store>>

\* A call of any of the nine functions for one window (00:00 to 01:00) or
\* one target (02:00), with a sentinel of X and a bounding box of B.
CallsWith(X, B) ==
    \/ \E x \in X, bb \in B, sd \in ScratchDirs :
            get_snow_depth_obs(0, Hour, x, bb, sd)
    \/ \E x \in X, bb \in B, sd \in ScratchDirs :
            get_swe_obs(0, Hour, x, bb, sd)
    \/ \E x \in X, bb \in B, sd \in ScratchDirs :
            get_swe_obs_df(0, Hour, x, bb, sd)
    \/ \E x \in X, bb \in B, sd \in ScratchDirs :
            get_prev_snow_depth_obs(2 * Hour, 1, x, bb, sd)
    \/ \E x \in X, bb \in B, sd \in ScratchDirs :
            get_air_temp_obs(0, Hour, x, bb, sd)
    \/ \E x \in X, bb \in B, sd \in ScratchDirs :
            get_prev_air_temp_obs(2 * Hour, 1, x, bb, sd)
    \/ \E x \in X, bb \in B, sd \in ScratchDirs :
            get_snwd_snowfall_obs(2 * Hour, 1, x, bb, sd)
    \/ \E x \in X, bb \in B, sd \in ScratchDirs :
            get_snwd_prcp_obs(2 * Hour, 1, x, bb, sd)
    \/ \E x \in X, bb \in B, sd \in ScratchDirs :
            get_prv_air_temp_obs(2 * Hour, 1, x, bb, sd)

\* The functions called with either of two sentinels while the database
\* server comes and goes.
TwoNoDataValues == { DefaultNoData, 0 }

NextStore ==
    \/ Tick
    \/ store_refuses
    \/ store_rejects
    \/ store_recovers
    \/ CallsWith(TwoNoDataValues, { None })

SpecStore == Init /\ [][NextStore]_vars

\* The functions called while another process writes a file.
NextFiles ==
    \/ Tick
    \/ writer_query
    \/ writer_open
    \/ writer_dump
    \/ writer_close
    \/ writer_crash
    \/ CallsWith(NoDataValues, BoundingBoxes)

SpecFiles == Init /\ [][NextFiles]_vars

\* ------------------------------------------------------ the pivot on its own
\* The pivot applied to row streams the queries can return: rows of known
\* stations, dated inside the window, ordered by (obj_identifier, date).
PivotStations == { st \in point_allstation : st.obj_identifier <= MaxStations }
PivotValues == { 0, 12000 } \cup NoDataValues
\* Dates of the first hours, and one a day later.
PivotDates == (0..(MaxSlotHours * Hour + MaxMinute)) \cup { Day + Hour }
PivotWindows == { w \in Minutes \X PivotDates : w[1] <= w[2] }
OnErrors == { "exit", "IndexError" }

RowsIn(begin_datetime, end_datetime) ==
    { SelectRow(st, ObsRow(st.obj_identifier, d, v), 1) :
        st \in PivotStations,
        d \in { t \in PivotDates : begin_datetime <= t /\ t <= end_datetime },
        v \in PivotValues }

StrictlyBefore(r, q) ==
    \/ r.obj_identifier < q.obj_identifier
    \/ r.obj_identifier = q.obj_identifier /\ r.date < q.date

\* The ordered streams of at most n rows of R.
RECURSIVE Streams(_, _)
Streams(R, n) ==
    IF n = 0 THEN { << >> }
    ELSE LET S == Streams(R, n - 1)
         IN  S \cup { Append(p[1], p[2]) :
                        p \in { q \in S \X R :
                                  /\ Len(q[1]) = n - 1
                                  /\ n = 1 \/ StrictlyBefore(q[1][n - 1], q[2]) } }

InitPivot ==
    /\ files = [q \in {} |-> 0]
    /\ now = 10 * Day + Hour + MaxMinute
    /\ ncalls = 0
    /\ last = [fn |-> "none"]
    /\ prev = [fn |-> "none"]
    /\ pout = [done |-> FALSE]
    /\ store = "up"
    /\ writer = [phase |-> "idle"]
    /\ \E w \in PivotWindows, k \in { "range", "instant" }, x \in NoDataValues,
          oe \in OnErrors :
          /\ k = "instant" => w[1] = w[2]
          /\ \E df \in Streams(RowsIn(w[1], w[2]), MaxRows) :
               pin = [kind |-> k, df |-> df, begin_datetime |-> w[1],
                      end_datetime |-> w[2], no_data_value |-> x,
                      on_error |-> oe]

\* Lines 118-184 applied to the stream.
pivot_range ==
    /\ pin.kind = "range"
    /\ ~ pout.done
    /\ LET r == PivotRange(pin.df, pin.begin_datetime, pin.end_datetime,
                           pin.no_data_value, pin.on_error, "values")
       IN  pout' = [done |-> TRUE, fault |-> r.fault, value |-> r.value]
    /\ UNCHANGED <<files, now, ncalls, last, prev, pin, store, writer>>

\* Lines 1166-1230 applied to the stream.
pivot_instant ==
    /\ pin.kind = "instant"
    /\ ~ pout.done
    /\ LET r == PivotInstant(pin.df, pin.begin_datetime, pin.no_data_value,
                             pin.on_error, "values")
       IN  pout' = [done |-> TRUE, fault |-> r.fault, value |-> r.value]
    /\ UNCHANGED <<files, now, ncalls, last, prev, pin, store, writer>>

NextPivot == pivot_range \/ pivot_instant

SpecPivot == InitPivot /\ [][NextPivot]_vars

\* --------------------------------------------- the pivot on any row stream
\* The pivot applied to whatever a store may return: rows in any order, of
\* any station, an identifier of -1 included, dated before, inside or after
\* the window.
AnyStations ==
    PivotStations \cup
    { [obj_identifier |-> 0 - 1, station_id |-> <<"N">>, name |-> <<"n">>,
       coordinates |-> <<2000, 2000>>, elevation |-> 400,
       recorded_elevation |-> 404] }
AnyDates == 0..((MaxSlotHours + 1) * Hour + MaxMinute)
AnyWindows ==
    { w \in { Hour + m : m \in Minutes } \X AnyDates :
        w[2] = w[1] \/ w[2] = w[1] + Hour + MaxMinute }
AnyRows ==
    { SelectRow(st, ObsRow(st.obj_identifier, d, 12000), 1) :
        st \in AnyStations, d \in AnyDates }

\* The streams of at most n rows of R, in any order.
AnyStreams(R, n) == UNION { [1..k -> R] : k \in 0..n }

InitPivotAny ==
    /\ files = [q \in {} |-> 0]
    /\ now = 10 * Day + Hour + MaxMinute
    /\ ncalls = 0
    /\ last = [fn |-> "none"]
    /\ prev = [fn |-> "none"]
    /\ pout = [done |-> FALSE]
    /\ store = "up"
    /\ writer = [phase |-> "idle"]
    /\ \E w \in AnyWindows, k \in { "range", "instant" }, x \in NoDataValues,
          oe \in OnErrors :
          /\ k = "instant" => w[1] = w[2]
          /\ \E df \in AnyStreams(AnyRows, MaxRows) :
               pin = [kind |-> k, df |-> df, begin_datetime |-> w[1],
                      end_datetime |-> w[2], no_data_value |-> x,
                      on_error |-> oe]

SpecPivotAny == InitPivotAny /\ [][NextPivot]_vars


\* ===================================================================== claims
\* The station identifiers of a stream, each once, in order of first
\* appearance.
RECURSIVE DistinctInOrder(_)
DistinctInOrder(ids) ==
    IF ids = << >> THEN << >>
    ELSE LET rest == DistinctInOrder(SubSeq(ids, 1, Len(ids) - 1))
             x == ids[Len(ids)]
         IN  IF \E i \in DOMAIN rest : rest[i] = x THEN rest ELSE Append(rest, x)

StreamIds(df) == [k \in DOMAIN df |-> df[k].obj_identifier]
IndexOfStation(s, ids) == CHOOSE i \in DOMAIN ids : ids[i] = s

\* floor((t - begin) / 1h), counted from 1.
SlotOf(t, begin_datetime) == ((t - begin_datetime) \div Hour) + 1

RangePivoted == pout.done /\ pin.kind = "range"
InstantPivoted == pout.done /\ pin.kind = "instant"

\* The cell a row of the stream is stored in holds the row's value.
RowStored(k) ==
    LET ids == DistinctInOrder(StreamIds(pin.df))
        i == IndexOfStation(pin.df[k].obj_identifier, ids)
        j == SlotOf(pin.df[k].date, pin.begin_datetime)
        m == pout.value.values
    IN  /\ i \in DOMAIN m
        /\ j \in DOMAIN m[i]
        /\ m[i][j].data = pin.df[k].value
        /\ ~ m[i][j].mask

\* A later row of the same station falls in the same hour slot.
Overwritten(k) ==
    \E l \in DOMAIN pin.df :
        /\ l > k
        /\ pin.df[l].obj_identifier = pin.df[k].obj_identifier
        /\ SlotOf(pin.df[l].date, pin.begin_datetime)
             = SlotOf(pin.df[k].date, pin.begin_datetime)

\* The scenario of the specification: A at hour 0 = 12.0, A at hour 2 = 15.0,
\* B at hour 1 = 3.0, a window of three hours.
ScenarioRow(o, d, v) ==
    SelectRow(CHOOSE st \in point_allstation : st.obj_identifier = o,
              ObsRow(o, d, v), 1)
ScenarioPivot ==
    PivotRange(<<ScenarioRow(1, 0, 12000), ScenarioRow(1, 2 * Hour, 15000),
                 ScenarioRow(2, Hour, 3000)>>,
               0, 2 * Hour, DefaultNoData, "exit", "values_cm")
NoDataCell == [data |-> DefaultNoData, mask |-> TRUE, init |-> TRUE]
ScenarioHolds ==
    /\ ScenarioPivot.fault = "none"
    /\ ScenarioPivot.value.station_obj_id = <<1, 2>>
    /\ ScenarioPivot.value.values =
         << <<Cell(12000, FALSE), NoDataCell, Cell(15000, FALSE)>>,
            <<NoDataCell, Cell(3000, FALSE), NoDataCell>> >>

MapsTo(k, i, j) ==
    /\ IndexOfStation(pin.df[k].obj_identifier,
                      DistinctInOrder(StreamIds(pin.df))) = i
    /\ pin.kind = "range" => SlotOf(pin.df[k].date, pin.begin_datetime) = j

\* The cells of the result, as (row, column) -> cell; column 1 for the
\* one-instant arrays.
ResultCells ==
    IF pin.kind = "range"
    THEN [c \in { <<i, j>> : i \in DOMAIN pout.value.values,
                             j \in 1..pout.value.num_hours }
            |-> pout.value.values[c[1]][c[2]]]
    ELSE [c \in { <<i, 1>> : i \in DOMAIN pout.value.values }
            |-> pout.value.values[c[1]]]

\* C2: in a freshly computed matrix every cell has been assigned, and a cell
\* is masked if and only if no row of the stream maps to it, also when the
\* row's value is 0 or equals no_data_value.
C2_MaskedIffNoRow ==
    pout.done =>
        /\ pout.fault = "none"
        /\ \A c \in DOMAIN ResultCells :
             /\ ResultCells[c].init
             /\ ResultCells[c].mask
                  <=> ~ \E k \in DOMAIN pin.df : MapsTo(k, c[1], c[2])

\* C2 witness: a matrix with a masked cell, an unmasked 0 and an unmasked
\* cell holding no_data_value.
C2_Witness ==
    /\ RangePivoted
    /\ \E c \in DOMAIN ResultCells : ResultCells[c].mask
    /\ \E c \in DOMAIN ResultCells :
         ~ ResultCells[c].mask /\ ResultCells[c].data = 0
    /\ \E c \in DOMAIN ResultCells :
         ~ ResultCells[c].mask /\ ResultCells[c].data = pin.no_data_value

\* C3 as claimed: the first dimension of the values array equals num_stations
\* and the length of every station list, also for a query without rows; a
\* window array has len(obs_datetime) columns.
C3_AsClaimed ==
    (pout.done /\ pout.fault = "none") =>
        LET v == pout.value
        IN  /\ Len(v.values) = v.num_stations
            /\ Len(v.station_obj_id) = v.num_stations
            /\ Len(v.station_id) = v.num_stations
            /\ Len(v.station_name) = v.num_stations
            /\ Len(v.station_lon) = v.num_stations
            /\ Len(v.station_lat) = v.num_stations
            /\ Len(v.station_elevation) = v.num_stations
            /\ Len(v.station_rec_elevation) = v.num_stations
            /\ pin.kind = "range" =>
                 \A i \in DOMAIN v.values : Len(v.values[i]) = Len(v.obs_datetime)

Called(c) == c.fn # "none"

\* now_utc - end_of_window at the time of the call, end_of_window being
\* end_datetime, target_datetime - 1h (prev/prv) or target_datetime.
EndOfWindow(c) ==
    CASE c.kind = "range" -> c.a2
      [] c.kind = "prev" -> c.a1 - Hour
      [] c.kind = "instant" -> c.a1
Lag(c) == c.now - EndOfWindow(c)

\* The functions that look for the file whatever scratch_dir is.
ReadsWithoutScratchDir ==
    { "get_snow_depth_obs", "get_swe_obs", "get_swe_obs_df" }

SameArguments(c, d) ==
    /\ c.fn = d.fn
    /\ c.a1 = d.a1
    /\ c.a2 = d.a2
    /\ c.no_data_value = d.no_data_value
    /\ c.bounding_box = d.bounding_box
    /\ c.scratch_dir = d.scratch_dir

\* What a fresh store query with the arguments of call c produces.
FreshOf(c) ==
    CASE c.fn = "get_snow_depth_obs" ->
           fresh_get_snow_depth_obs(c.a1, c.a2, c.no_data_value, c.bounding_box)
      [] c.fn = "get_swe_obs" ->
           fresh_get_swe_obs(c.a1, c.a2, c.no_data_value, c.bounding_box)
      [] c.fn = "get_swe_obs_df" ->
           fresh_get_swe_obs_df(c.a1, c.a2, c.no_data_value, c.bounding_box)
      [] c.fn = "get_prev_snow_depth_obs" ->
           fresh_get_prev_snow_depth_obs(c.a1, c.a2, c.no_data_value,
                                         c.bounding_box)
      [] c.fn = "get_air_temp_obs" ->
           fresh_get_air_temp_obs(c.a1, c.a2, c.no_data_value, c.bounding_box)
      [] c.fn = "get_prev_air_temp_obs" ->
           fresh_get_prev_air_temp_obs(c.a1, c.a2, c.no_data_value,
                                       c.bounding_box)
      [] c.fn = "get_snwd_snowfall_obs" ->
           fresh_get_snwd_snowfall_obs(c.a1, c.a2, c.no_data_value,
                                       c.bounding_box)
      [] c.fn = "get_snwd_prcp_obs" ->
           fresh_get_snwd_prcp_obs(c.a1, c.a2, c.no_data_value, c.bounding_box)
      [] c.fn = "get_prv_air_temp_obs" ->
           fresh_get_prv_air_temp_obs(c.a1, c.a2, c.no_data_value,
                                      c.bounding_box)

\* A call without bounding box whose window ends 100 days before now, served
\* from the store, leaves its result in its file.
WritesOldWindow ==
    (/\ Called(last)
     /\ last.bounding_box = None
     /\ Lag(last) >= 100 * Day
     /\ last.source = "store")
    => /\ last.wrote
       /\ isfile(last.path)
       /\ ReadFile(last.path) = last.value

\* The call after such a call, with the same arguments.
RepeatsOldWindow ==
    /\ Called(prev)
    /\ prev.bounding_box = None
    /\ Lag(prev) >= 100 * Day
    /\ prev.wrote
    /\ SameArguments(prev, last)

ServedFromFile ==
    /\ last.value = prev.value
    /\ last.source = "cache"
    /\ last.connects = 0
    /\ last.executes = 0

C6_WriteOnlyWhenOld ==
    Called(last) =>
        /\ last.wrote => Lag(last) > CacheLagDays * Day
        /\ last.wrote => (isfile(last.path) /\ last.source = "store"
                            /\ files[last.path] = pkl_dump(last.value))
        /\ (Lag(last) = 10 * Day \/ Lag(last) = CacheLagDays * Day)
             => ~ last.wrote

\* C6 witness: a call at exactly 60 days that wrote nothing, followed by a
\* call that wrote.
C6_Witness ==
    /\ Called(prev)
    /\ prev.bounding_box = None
    /\ Lag(prev) = CacheLagDays * Day
    /\ prev.source = "store"
    /\ ~ prev.wrote
    /\ last.wrote

\* C7 as claimed: a call with a bounding box never writes a cache entry and
\* never returns a value read from one.
C7_AsClaimed ==
    (Called(last) /\ last.bounding_box # None) =>
        /\ ~ last.wrote
        /\ last.source # "cache"

\* C8 as claimed: a call with scratch_dir = None neither reads a cache file
\* nor creates or overwrites any file.
C8_AsClaimed ==
    (Called(last) /\ last.scratch_dir = None) =>
        /\ ~ last.wrote
        /\ last.source # "cache"

\* C9 as claimed: a call without bounding box that returns a cache entry
\* returns what a fresh store query with its arguments would produce.
C9_AsClaimed ==
    (Called(last) /\ last.bounding_box = None /\ last.source = "cache") =>
        last.value = FreshOf(last).value

\* C10 as claimed: a call whose window end is within 60 days of now queries
\* the store and never returns a cached value.
C10_AsClaimed ==
    (Called(last) /\ Lag(last) <= CacheLagDays * Day) =>
        /\ last.source = "store"
        /\ last.executes = 1

\* ------------------------------------------------- claims C11, C12 and C14
\* A step that is a call of one of the nine functions.
CallStep == ncalls' = ncalls + 1

\* C11 as claimed: once a file has been written no later call replaces,
\* rewrites or deletes it: every existing file keeps its content, and a call
\* that writes creates a file that was not there.
C11_AsClaimed ==
    [][ /\ \A p \in DOMAIN files : p \in DOMAIN files' /\ files'[p] = files[p]
        /\ (CallStep /\ last'.wrote) => last'.path \notin DOMAIN files ]_vars

\* A row whose date is off the hour, counted from the clock or from begin.
OffTheHour(k) ==
    /\ pin.df[k].date % Hour # 0
    /\ (pin.df[k].date - pin.begin_datetime) % Hour # 0

\* A row whose slot index is outside 0 .. num_hours - 1.
OutsideTimeAxis(k) ==
    LET t == time_ind_of(pin.df[k].date, pin.begin_datetime)
    IN  t < 0 \/ t >= num_hours_of(pin.begin_datetime, pin.end_datetime)

\* C12 as claimed: in a range pivot a row whose slot index is outside the
\* time axis or whose date is not on an hour boundary is reported as a fault:
\* the pivot neither completes silently, nor exits the process, nor lets an
\* IndexError escape.
C12_AsClaimed ==
    (RangePivoted /\ \E k \in DOMAIN pin.df : OffTheHour(k) \/ OutsideTimeAxis(k))
        => pout.fault \notin { "none", "exit", "IndexError" }

\* The position of the first row of station s in the stream.
FirstRowOf(s) ==
    CHOOSE k \in DOMAIN pin.df :
        /\ pin.df[k].obj_identifier = s
        /\ \A l \in 1..(k - 1) : pin.df[l].obj_identifier # s

Fresh(c) == Called(c) /\ c.source = "store" /\ c.outcome = "return"

\* The table a function reads and the factor it scales the values by.
TableOf(fn) ==
    CASE fn \in { "get_snow_depth_obs", "get_prev_snow_depth_obs" }
           -> point_obs_snow_depth
      [] fn \in { "get_swe_obs", "get_swe_obs_df" } -> point_obs_swe
      [] fn \in { "get_air_temp_obs", "get_prev_air_temp_obs",
                  "get_prv_air_temp_obs" } -> point_obs_airtemp
      [] fn = "get_snwd_snowfall_obs" -> point_obs_snowfall_raw
      [] fn = "get_snwd_prcp_obs" -> point_obs_precip_raw
FactorOf(fn) ==
    CASE fn \in { "get_snow_depth_obs", "get_prev_snow_depth_obs",
                  "get_snwd_snowfall_obs" } -> DepthFactor
      [] fn \in { "get_swe_obs", "get_swe_obs_df", "get_snwd_prcp_obs" } -> SweFactor
      [] OTHER -> 1

\* The non-null observations dated end_datetime of stations the call selects.
ObservedAtEnd(c) ==
    { o \in TableOf(c.fn) :
        /\ o.date = c.a2
        /\ ~ o.isnull
        /\ \E st \in point_allstation :
             /\ st.obj_identifier = o.obj_identifier
             /\ InBoundingBox(st, c.bounding_box) }

\* The observation is in the result of c: a row of the data frame, or the
\* cell of its station in slot floor((end - begin) / 1h), which is the last
\* slot when end - begin is a whole number of hours.
IncludedAtEnd(c, o) ==
    IF c.fn = "get_swe_obs_df"
    THEN \E k \in DOMAIN c.value.rows :
            /\ c.value.rows[k].obj_identifier = o.obj_identifier
            /\ c.value.rows[k].date = o.date
            /\ c.value.rows[k].value = o.value * FactorOf(c.fn)
    ELSE \E i \in DOMAIN c.value.station_obj_id :
            /\ c.value.station_obj_id[i] = o.obj_identifier
            /\ c.value.values[i][((c.a2 - c.a1) \div Hour) + 1]
                 = [data |-> o.value * FactorOf(c.fn), mask |-> FALSE, init |-> TRUE]
            /\ (c.a2 - c.a1) % Hour = 0
                 => ((c.a2 - c.a1) \div Hour) + 1 = c.value.num_hours

PriorHoursFunctions ==
    { "get_prev_snow_depth_obs", "get_prev_air_temp_obs", "get_prv_air_temp_obs" }

\* The unmasked cell (i, j) of c's matrix holds an observation of its station
\* dated in hour j of the window and before target_datetime.
FromBeforeTarget(c, i, j) ==
    \E o \in TableOf(c.fn) :
        /\ i \in DOMAIN c.value.station_obj_id
        /\ o.obj_identifier = c.value.station_obj_id[i]
        /\ ~ o.isnull
        /\ o.value * FactorOf(c.fn) = c.value.values[i][j].data
        /\ o.date < c.a1
        /\ ((o.date - (c.a1 - c.a2 * Hour)) \div Hour) + 1 = j

\* C16 as claimed: a call of one of the prior-hours functions with
\* target_datetime and n >= 1 returns a result with num_hours = n, whose
\* time axis is target - n h, ..., target - 1 h, and in which every stored
\* value was observed in its hour of that window, before target_datetime.
C16_AsClaimed ==
    (Called(last) /\ last.fn \in PriorHoursFunctions /\ last.outcome = "return")
        => LET n == last.a2
               v == last.value
           IN  /\ n >= 1
               /\ v.num_hours = n
               /\ v.obs_datetime = [i \in 1..n |-> last.a1 - (n - i + 1) * Hour]
               /\ \A i \in DOMAIN v.values : \A j \in DOMAIN v.values[i] :
                    ~ v.values[i][j].mask => FromBeforeTarget(last, i, j)

\* The same for the results computed from the store.
C16_FreshWindow ==
    Fresh(last) => C16_AsClaimed

\* The station has a non-null snow depth reading dated t.
HasSnowDepthAt(s, t) ==
    \E o \in point_obs_snow_depth :
        o.obj_identifier = s /\ o.date = t /\ ~ o.isnull

\* The functions that restrict the stations to those with a snow depth
\* reading at target_datetime, and the two that read one instant.
SnowDepthFiltered ==
    { "get_prev_snow_depth_obs", "get_prev_air_temp_obs",
      "get_snwd_snowfall_obs", "get_snwd_prcp_obs" }
InstantFunctions == { "get_snwd_snowfall_obs", "get_snwd_prcp_obs" }

\* The observations of the instant: dated target_datetime, of the duration
\* asked for, not null.
ObservedAtInstant(c) ==
    { o \in TableOf(c.fn) :
        /\ o.date = c.a1
        /\ o.duration = c.a2 * SecondsPerHour
        /\ ~ o.isnull }

\* C17: in a fresh result of get_prev_snow_depth_obs, get_prev_air_temp_obs,
\* get_snwd_snowfall_obs or get_snwd_prcp_obs every station has a non-null
\* snow depth reading dated exactly target_datetime; in the snowfall and
\* precipitation results every stored value is that of a row of its station
\* dated exactly target_datetime with duration = duration_hours * 3600 s.
C17_CoOccurrence ==
    (Fresh(last) /\ last.fn \in SnowDepthFiltered)
        => LET v == last.value
           IN  /\ \A i \in DOMAIN v.station_obj_id :
                    HasSnowDepthAt(v.station_obj_id[i], last.a1)
               /\ last.fn \in InstantFunctions =>
                    \A i \in DOMAIN v.values :
                        ~ v.values[i].mask =>
                            /\ i \in DOMAIN v.station_obj_id
                            /\ \E o \in ObservedAtInstant(last) :
                                 /\ o.obj_identifier = v.station_obj_id[i]
                                 /\ o.value * FactorOf(last.fn) = v.values[i].data

\* C17 witness: a snowfall result with a station, while another station has
\* a snowfall row of that instant and duration but no snow depth reading at
\* that instant; before it a prior-hours result with a station.
C17_Witness ==
    /\ Fresh(last) /\ Fresh(prev)
    /\ last.fn = "get_snwd_snowfall_obs"
    /\ last.value.num_stations >= 1
    /\ ~ last.value.values[1].mask
    /\ \E o \in ObservedAtInstant(last) :
         /\ \A i \in DOMAIN last.value.station_obj_id :
              last.value.station_obj_id[i] # o.obj_identifier
         /\ \E d \in point_obs_snow_depth :
              d.obj_identifier = o.obj_identifier /\ ~ d.isnull
    /\ prev.fn = "get_prev_air_temp_obs"
    /\ prev.value.num_stations >= 1

\* ------------------------------------------- claims C13, C18, C19 and C20
\* The cells of the matrix a call returned.
CellsOf(c) ==
    IF c.kind = "instant"
    THEN { c.value.values[i] : i \in DOMAIN c.value.values }
    ELSE UNION { { c.value.values[i][j] : j \in DOMAIN c.value.values[i] } :
                 i \in DOMAIN c.value.values }

ReturnedMatrix(c) ==
    Called(c) /\ c.outcome = "return" /\ c.fn # "get_swe_obs_df"

\* C13 as claimed: in every matrix returned by a call with sentinel
\* no_data_value = x, computed or read from a file, every masked cell holds x
\* as its stored number (and its mask flag is set).
C13_AsClaimed ==
    ReturnedMatrix(last) =>
        \A cell \in CellsOf(last) :
            cell.mask => (cell.init /\ cell.data = last.no_data_value)

\* The same for the matrices computed from the store.
C13_FreshSentinel ==
    Fresh(last) => C13_AsClaimed

\* C18: when the connection is refused or the query is rejected, the call
\* ends with the exception: it returns no matrix, has opened one connection
\* and run at most one query (none after a refused connection), and every
\* file is as it was.
C18_FailureSurfaced ==
    [][ (CallStep /\ store # "up" /\ last'.source # "cache") =>
            /\ last'.outcome =
                 (IF store = "refuses" THEN "OperationalError" ELSE "DatabaseError")
            /\ last'.value = None
            /\ last'.connects = 1
            /\ last'.executes = (IF store = "refuses" THEN 0 ELSE 1)
            /\ ~ last'.wrote
            /\ files' = files ]_vars

\* C18 witness: a call that wrote a file, then a call for the same file that
\* does not look for it and whose query the server rejects.
C18_Witness ==
    /\ Called(prev)
    /\ prev.wrote
    /\ last.path = prev.path
    /\ last.outcome = "DatabaseError"
    /\ last.executes = 1
    /\ files[prev.path] = pkl_dump(prev.value)

\* C19 as claimed: when the file of a call exists but is truncated, the call
\* fails the read, queries the store and returns the result of that query.
C19_AsClaimed ==
    [][ (/\ CallStep
         /\ last'.path \in DOMAIN files
         /\ files[last'.path].pickled = "truncated") =>
            /\ last'.outcome = "return"
            /\ last'.source = "store"
            /\ last'.executes = 1
            /\ last'.value = FreshOf(last').value ]_vars

\* The other process has opened the file at p and not closed it.
MidWrite(p) ==
    /\ writer.phase \in { "open", "dumping", "crashed" }
    /\ writer.path = p

\* C20: a call that returns what it read from a file read a file that no
\* process was writing or had left unfinished, and the file held the whole
\* result; a call that looks for a file another process is writing, or died
\* writing, ends with the exception of pkl.load and returns no matrix.
C20_NoPartialRead ==
    [][ CallStep =>
            /\ (last'.source = "cache" /\ last'.outcome = "return") =>
                  /\ ~ MidWrite(last'.path)
                  /\ files[last'.path] = pkl_dump(last'.value)
            /\ (MidWrite(last'.path) /\ last'.source = "cache") =>
                  /\ last'.outcome = "UnpicklingError"
                  /\ last'.value = None ]_vars

\* C20 witness: a call failed on the file while the other process was
\* writing it, and the same call after the close returned the whole result.
C20_Witness ==
    /\ Called(prev)
    /\ prev.outcome = "UnpicklingError"
    /\ SameArguments(prev, last)
    /\ last.source = "cache"
    /\ last.outcome = "return"
    /\ writer.phase = "closed"
    /\ writer.path = last.path
    /\ last.value = writer.value

\* ------------------------------------------------------------- claim C21
\* Every cell of the matrix a call returned was assigned a number: nothing
\* of what np.ma.empty left in memory is in the result.
AllAssigned(c) ==
    c.fn # "get_swe_obs_df" => \A cell \in CellsOf(c) : cell.init

StationsOf(fn, v) ==
    IF fn = "get_swe_obs_df"
    THEN { [obj_identifier |-> v.rows[k].obj_identifier,
            lon |-> v.rows[k].lon, lat |-> v.rows[k].lat] : k \in DOMAIN v.rows }
    ELSE { [obj_identifier |-> v.station_obj_id[i],
            lon |-> v.station_lon[i], lat |-> v.station_lat[i]] :
              i \in DOMAIN v.station_obj_id }

\* lon_min <= lon < lon_max and lat_min <= lat < lat_max
InHalfOpenBox(s, bb) ==
    /\ bb[1] <= s.lon /\ s.lon < bb[2]
    /\ bb[3] <= s.lat /\ s.lat < bb[4]

\* The stations the call would return without its bounding box.
StationsWithData(c) ==
    StationsOf(c.fn, FreshOf([c EXCEPT !.bounding_box = None]).value)

\* C22 as claimed: the stations in the result of a call with a bounding box
\* are exactly the stations with data for the call that lie in the half-open
\* rectangle, a station on a minimum edge included and one on a maximum edge
\* excluded.
C22_AsClaimed ==
    (Called(last) /\ last.bounding_box # None /\ last.outcome = "return")
        => StationsOf(last.fn, last.value)
             = { s \in StationsWithData(last) : InHalfOpenBox(s, last.bounding_box) }

\* The same for the results computed from the store.
C22_FreshBox ==
    Fresh(last) => C22_AsClaimed

\* ------------------------------------------------------------- claim C23
\* The (station, number) pairs a result holds: its unmasked cells, or the
\* rows of the data frame.
StoredValues(c) ==
    IF c.fn = "get_swe_obs_df"
    THEN { <<c.value.rows[k].obj_identifier, c.value.rows[k].value>> :
             k \in DOMAIN c.value.rows }
    ELSE IF c.kind = "instant"
    THEN { <<c.value.station_obj_id[i], c.value.values[i].data>> :
             i \in { n \in DOMAIN c.value.station_obj_id :
                       ~ c.value.values[n].mask } }
    ELSE UNION { { <<c.value.station_obj_id[i], c.value.values[i][j].data>> :
                     j \in { m \in DOMAIN c.value.values[i] :
                               ~ c.value.values[i][m].mask } } :
                 i \in DOMAIN c.value.station_obj_id }

\* The factor of each variable: meters to centimeters, meters to
\* millimeters, degrees as they are.
UnitFactor(fn) ==
    CASE fn \in { "get_snow_depth_obs", "get_prev_snow_depth_obs",
                  "get_snwd_snowfall_obs" } -> 100
      [] fn \in { "get_swe_obs", "get_swe_obs_df", "get_snwd_prcp_obs" } -> 1000
      [] fn \in { "get_air_temp_obs", "get_prev_air_temp_obs",
                  "get_prv_air_temp_obs" } -> 1

\* C23: every value a call returns for a station is a non-null source value
\* of that station in the function's table multiplied by the variable's
\* factor (100 for snow depth and snowfall, 1000 for SWE and precipitation,
\* 1 for air temperature); a row with the raw depth 0.254 is selected as
\* 25.4.
C23_Scaled ==
    (Called(last) /\ last.outcome = "return") =>
        /\ \A p \in StoredValues(last) :
             \E o \in TableOf(last.fn) :
                 /\ o.obj_identifier = p[1]
                 /\ ~ o.isnull
                 /\ p[2] = o.value * UnitFactor(last.fn)
        /\ \A st \in point_allstation :
             SelectRow(st, ObsRow(st.obj_identifier, 0, 254), DepthFactor).value
               = 25400

\* C23 witness: a snow depth matrix that holds 30.0 cm for the raw 0.300 of
\* station 1, after an air temperature matrix that holds a negative
\* temperature.
C23_Witness ==
    /\ Fresh(last) /\ Fresh(prev)
    /\ last.fn = "get_snow_depth_obs"
    /\ ObsRow(1, 1, 300) \in point_obs_snow_depth
    /\ last.value.values[1][1] = Cell(30000, FALSE)
    /\ prev.fn = "get_air_temp_obs"
    /\ <<1, 0 - 5000>> \in StoredValues(prev)

\* ------------------------------------------------------------- claim C24
\* A call served from the store opens one connection and executes one query;
\* a call served from a file opens none.
OneConnectionOneQuery(c) ==
    /\ (c.source = "store" /\ c.outcome = "return")
         => (c.connects = 1 /\ c.executes = 1)
    /\ c.source = "cache" => (c.connects = 0 /\ c.executes = 0)

\* C24 as claimed: every call that does not return from the cache opens
\* exactly one connection, executes exactly one query, and the connection is
\* closed when the call returns; a call that returns from the cache opens no
\* connection.
C24_AsClaimed ==
    Called(last) =>
        /\ OneConnectionOneQuery(last)
        /\ Fresh(last) => last.closes

\* The part about the number of connections and queries.
C24_OneQuery ==
    Called(last) => OneConnectionOneQuery(last)

\* ------------------------------------------------------------- claim C25
\* The row is dated inside the window (any date, for the one-instant pivot).
InWindow(k) ==
    \/ pin.kind = "instant"
    \/ pin.begin_datetime <= pin.df[k].date /\ pin.df[k].date <= pin.end_datetime

\* A stream of rows dated inside the window, of stations with identifiers
\* other than -1, in any order.
AnyOrder ==
    \A k \in DOMAIN pin.df : InWindow(k) /\ pin.df[k].obj_identifier # 0 - 1

\* C25 as claimed: for any row stream, one in which a station's rows are not
\* contiguous (A, B, A) included, each station identifier appears at most
\* once in station_obj_id and num_stations is the number of distinct
\* stations: a station seen before gets no second entry.
C25_AsClaimed ==
    (pout.done /\ AnyOrder) =>
        LET ids == pout.value.station_obj_id
        IN  /\ \A i, j \in DOMAIN ids : ids[i] = ids[j] => i = j
            /\ pout.value.num_stations
                 = Cardinality({ pin.df[k].obj_identifier : k \in DOMAIN pin.df })

\* ------------------------------------------------------------- claim C26
\* The other process opens its file for writing.
WriterOpens == writer.phase = "queried" /\ writer'.phase = "open"

\* The last call was the same function for the same file, without bounding
\* box; it found no file and created it.
CreatedBySameCall ==
    /\ Called(last)
    /\ last.fn = writer.fn
    /\ last.path = writer.path
    /\ last.bounding_box = None
    /\ last.wrote
    /\ isfile(writer.path)
    /\ files[writer.path] = pkl_dump(last.value)

\* C26 as claimed: of two processes that call the same function for the same
\* old window, both having found no file, only one writes the file: the one
\* that comes second to the write leaves the file the first created as it is.
C26_AsClaimed ==
    [][ (WriterOpens /\ CreatedBySameCall) => files' = files ]_vars

\* ------------------------------------------------------------- claim C27
\* The state of the scan after the first k rows of the stream.
ScanAfter(k) ==
    LET n == num_hours_of(pin.begin_datetime, pin.end_datetime)
    IN  ScanRange(ScanInit(<<no_data_row(n, pin.no_data_value)>>),
                  SubSeq(pin.df, 1, k), 1, pin.begin_datetime, n,
                  pin.no_data_value, pin.on_error)

\* Every row of the stream is dated from begin_datetime to end_datetime.
RowsInWindow ==
    \A k \in DOMAIN pin.df :
        pin.begin_datetime <= pin.df[k].date /\ pin.df[k].date <= pin.end_datetime

\* The windows the prior-hours functions derive from target_datetime and n
\* hold no fault either, for the rows their queries return.
PriorHoursWindowsHold ==
    \A t \in Targets, n \in PrevHours :
        /\ t - n * Hour <= t - Hour
        /\ num_hours_of(t - n * Hour, t - Hour) = n
        /\ fresh_get_prev_snow_depth_obs(t, n, DefaultNoData, None).fault = "none"
        /\ fresh_get_prev_air_temp_obs(t, n, DefaultNoData, None).fault = "none"
        /\ fresh_get_prv_air_temp_obs(t, n, DefaultNoData, None).fault = "none"

\* C27: when every row is dated from begin to end, every row's slot index
\* time_ind is in 0 .. num_hours - 1, at every step of the scan station_ind
\* names a row the matrix has (index 0 .. rows - 1 once a station entry is
\* open), and the scan ends without reaching the fault branch; so it is for
\* the windows target - n h .. target - 1 h of the prior-hours functions.
C27_NoIndexFault ==
    (RangePivoted /\ RowsInWindow) =>
        /\ pout.fault = "none"
        /\ \A k \in DOMAIN pin.df :
             /\ 0 <= time_ind_of(pin.df[k].date, pin.begin_datetime)
             /\ time_ind_of(pin.df[k].date, pin.begin_datetime)
                  <= pout.value.num_hours - 1
             /\ IndexOk(ScanAfter(k).station_ind, Len(ScanAfter(k).obs))
             /\ pin.df[1].obj_identifier # 0 - 1 =>
                  /\ 0 <= ScanAfter(k).station_ind
                  /\ ScanAfter(k).station_ind < Len(ScanAfter(k).obs)
        /\ PriorHoursWindowsHold

\* C27 witness: a window of two hours that begins off the hour and ends off
\* the hours counted from its begin; three rows of two stations, the last
\* dated end_datetime and stored in the last slot.
C27_Witness ==
    /\ RangePivoted /\ RowsInWindow
    /\ pin.begin_datetime % Hour # 0
    /\ (pin.end_datetime - pin.begin_datetime) % Hour # 0
    /\ pout.value.num_hours = 2
    /\ Len(pin.df) = MaxRows
    /\ pout.value.num_stations = 2
    /\ pin.df[MaxRows].date = pin.end_datetime
    /\ ~ pout.value.values[2][2].mask

\* ------------------------------------------------------------- claim C28
\* The unmasked cells of a matrix, with their places.
UnmaskedCells(obs) ==
    UNION { { <<i, j, obs[i][j].data>> :
                j \in { m \in DOMAIN obs[i] : ~ obs[i][m].mask } } :
            i \in DOMAIN obs }

\* Row k is dated before begin_datetime: its slot index is negative.
EarlyRow(k) ==
    /\ pin.df[k].date < pin.begin_datetime
    /\ time_ind_of(pin.df[k].date, pin.begin_datetime) < 0

\* C28 as claimed: in a range pivot of rows of stations with identifiers
\* other than -1, a row dated before begin_datetime changes no cell of the
\* matrix and ends the scan on the fault path, as a row dated after
\* end_datetime does.
C28_AsClaimed ==
    (RangePivoted /\ \A l \in DOMAIN pin.df : pin.df[l].obj_identifier # 0 - 1)
        => \A k \in DOMAIN pin.df :
             (EarlyRow(k) /\ ScanAfter(k - 1).fault = "none") =>
                 /\ UnmaskedCells(ScanAfter(k).obs)
                      = UnmaskedCells(ScanAfter(k - 1).obs)
                 /\ ScanAfter(k).fault # "none"
                 /\ pout.fault # "none"

\* A row dated after end_datetime does take the fault path and changes no
\* cell.
C28_LateRowFaults ==
    (RangePivoted /\ \A l \in DOMAIN pin.df : pin.df[l].obj_identifier # 0 - 1)
        => \A k \in DOMAIN pin.df :
             (/\ time_ind_of(pin.df[k].date, pin.begin_datetime)
                   >= pout.value.num_hours
              /\ ScanAfter(k - 1).fault = "none") =>
                 /\ UnmaskedCells(ScanAfter(k).obs)
                      = UnmaskedCells(ScanAfter(k - 1).obs)
                 /\ ScanAfter(k).fault = pin.on_error

\* ------------------------------------------------------------- claim C29
\* The matrix rows that hold an unmasked cell.
RowsWithValues ==
    IF pin.kind = "range"
    THEN { i \in DOMAIN pout.value.values :
             \E j \in DOMAIN pout.value.values[i] : ~ pout.value.values[i][j].mask }
    ELSE { i \in DOMAIN pout.value.values : ~ pout.value.values[i].mask }

\* C29 as claimed: the first row of a non-empty stream of rows dated inside
\* the window opens a station entry whatever its obj_identifier is, -1
\* included: after the scan every row's station identifier is in
\* station_obj_id, num_stations >= 1, and every matrix row that holds a value
\* has a station entry.
C29_AsClaimed ==
    (pout.done /\ pin.df # << >> /\ \A k \in DOMAIN pin.df : InWindow(k)) =>
        LET ids == pout.value.station_obj_id
        IN  /\ pout.fault = "none"
            /\ \A k \in DOMAIN pin.df :
                 \E i \in DOMAIN ids : ids[i] = pin.df[k].obj_identifier
            /\ pout.value.num_stations >= 1
            /\ \A i \in RowsWithValues : i \in DOMAIN ids

\* The same for the streams whose first row has another identifier than -1.
C29_OtherIdentifiers ==
    (pin.df # << >> /\ pin.df[1].obj_identifier # 0 - 1) => C29_AsClaimed

\* ------------------------------------------------------------- claim C30
AirTempPair == { "get_air_temp_obs", "get_prv_air_temp_obs" }

\* The window of a call: begin and end as given, or target - n h and
\* target - 1 h.
WindowOf(c) ==
    IF c.kind = "prev" THEN <<c.a1 - c.a2 * Hour, c.a1 - Hour>> ELSE <<c.a1, c.a2>>

\* Two calls of get_air_temp_obs and get_prv_air_temp_obs, one of each, for
\* the same window, with the same sentinel and scratch_dir, no bounding box.
SameAirTempWindow ==
    /\ Called(prev)
    /\ { prev.fn, last.fn } = AirTempPair
    /\ WindowOf(prev) = WindowOf(last)
    /\ prev.no_data_value = last.no_data_value
    /\ prev.scratch_dir = last.scratch_dir
    /\ prev.bounding_box = None /\ last.bounding_box = None

\* C30: get_air_temp_obs(begin, end) and get_prv_air_temp_obs(target, n) for
\* the same window name the same file, what either writes is what the other
\* computes from the store, and a call of one served from the file of the
\* other returns what its own query would; no two other distinct functions
\* ever name the same file.
C30_SharedFileName ==
    /\ (Called(prev) /\ prev.fn # last.fn /\ prev.path.name = last.path.name)
         => { prev.fn, last.fn } = AirTempPair
    /\ SameAirTempWindow =>
         /\ prev.path = last.path
         /\ prev.wrote => prev.value = FreshOf(last).value
         /\ (prev.wrote /\ last.source = "cache") =>
              /\ last.outcome = "return"
              /\ last.value = FreshOf(last).value

\* C30 witness: get_prv_air_temp_obs wrote the file of its window and
\* get_air_temp_obs for that window was served from it, with two stations
\* and masked cells.
C30_Witness ==
    /\ SameAirTempWindow
    /\ prev.fn = "get_prv_air_temp_obs"
    /\ prev.wrote
    /\ last.fn = "get_air_temp_obs"
    /\ last.source = "cache"
    /\ last.value.num_stations >= 2
    /\ \E cell \in CellsOf(last) : cell.mask

====
